---- MODULE Spec2Model ----
(***************************************************************************)
(* Model of the interactive terminal UI of mrr-cli (package ui) and of the *)
(* record store it talks to (package db).                                  *)
(*                                                                         *)
(* One action per event the loop of TUI.run can read: a resize or a key     *)
(* press.  Each action models the whole handling of the event: the         *)
(* dispatch, the store calls it makes, the refresh after an input mode is  *)
(* left, and the render that ends it.  A Go panic (an index or slice       *)
(* bound out of range) ends the loop: phase becomes "panic".               *)
(*                                                                         *)
(* Indexes (selected, offset) are 0-based as in the Go code; TLA+          *)
(* sequences are 1-based, so entries[i] of the code is entries[i + 1].     *)
(***************************************************************************)
EXTENDS Integers, Sequences, FiniteSets, TLC

VARIABLES
    store,       \* the rows of table entries (a set of records, unique id)
    nextId,      \* the next AUTOINCREMENT id
    screenSize,  \* what screen.Size() returns: [w, h]
    finiCalls,   \* how many times screen.Fini() has run
    phase,       \* "start" | "loop" | "quit" | "panic" | "initfail"
                 \* ("call" | "return" where one function is run alone)
    entries,     \* TUI.entries
    selected,    \* TUI.selected
    offset,      \* TUI.offset
    width,       \* TUI.width
    height,      \* TUI.height
    inputMode,   \* TUI.inputMode: "" | "add" | "edit" | "delete"
    inputBuf,    \* TUI.inputBuf, a sequence of one-character strings
    message,     \* TUI.message
    shownMRR,    \* the screen: the total in the header, as drawn last
    last         \* history: the event handled last and the state it found

vars == <<store, nextId, screenSize, finiCalls, phase, entries, selected,
          offset, width, height, inputMode, inputBuf, message, shownMRR,
          last>>

----------------------------------------------------------------------------
(* Bounds of the model *)

\* records in the store when the program starts: 0..MaxInitEntries
MaxInitEntries == 1
\* identifiers the store hands out: 1..MaxId (inserts beyond it fail)
MaxId == 2
\* records in the store at the start of a navigation-only run
MaxNavEntries == 3
\* terminal heights: 7..MaxHeight
MaxHeight == 8
\* selected and offset handed to adjustOffset run alone: 0..MaxPos
MaxPos == 4

Heights == 7..MaxHeight
\* terminal widths: the note column is 3 cells wide
Widths == {61}

\* runes pressed while no input mode is active ("x": a rune bound to nothing)
NormalRunes == {"q", "j", "k", "g", "G", "a", "e", "d", "r", "x"}
\* runes pressed in a navigation-only run
NavRunes == {"j", "k", "g", "G"}
\* terminal widths where the note column is examined: none, and 0 to 4 cells
NoteWidths == {0, 57, 58, 59, 60, 61, 62}
\* terminal heights where the row count is examined: down to no row at all
SmallHeights == 0..MaxHeight
\* terminal heights handed to adjustOffset run alone: windows of 1 row up to
\* MaxPos rows
AdjustHeights == 0..(6 + MaxPos)
\* the texts typed while an input mode is active (and their prefixes)
Typed == {<<"1">>, <<"$", "1">>, <<"y">>, <<"Y">>, <<"q">>}
InputRunes == UNION {{w[i] : i \in 1..Len(w)} : w \in Typed}

\* the amounts typed where the conversion to cents is examined: an optional
\* "$", one digit, and up to two digits after a "."
AmountRunes == {"$", ".", "0", "1", "2", "3", "4", "5", "6", "7", "8", "9"}
AmountDigits == AmountRunes \ {"$", "."}
AmountTexts ==
    {pre \o <<d>> \o frac :
        pre \in {<<>>, <<"$">>}, d \in AmountDigits,
        frac \in {<<>>, <<".">>} \cup {<<".", f>> : f \in AmountDigits}
                 \cup {<<".", f, g>> : f \in AmountDigits, g \in AmountDigits}}

\* the answers typed where the delete confirmation is examined
ConfirmTexts == {<<"y">>, <<"Y">>, <<"n">>, <<"y", "y">>, <<"y", "e", "s">>}
ConfirmRunes == {"y", "Y", "n", "e", "s"}

\* the texts typed where the editing of the buffer is examined, as bytes:
\* "1", "$1", U+00E9 and "1" followed by U+00E9
TypingTexts == {<<"1">>, <<"$", "1">>, <<"0xC3", "0xA9">>,
                <<"1", "0xC3", "0xA9">>}
TypingRunes == {"1", "$", "eacute"}

\* the buffers that typing one of the texts passes through
Prefixes(texts) ==
    {<<>>} \cup UNION {{SubSeq(w, 1, k) : k \in 1..Len(w)} : w \in texts}
TypedPrefixes == Prefixes(Typed)
AmountPrefixes == Prefixes(AmountTexts)
ConfirmPrefixes == Prefixes(ConfirmTexts)
TypingPrefixes == Prefixes(TypingTexts)

IsPrefix(p, w) == Len(p) <= Len(w) /\ SubSeq(w, 1, Len(p)) = p

----------------------------------------------------------------------------
(* Helpers *)

Max(a, b) == IF a > b THEN a ELSE b

Digits == {"0", "1", "2", "3", "4", "5", "6", "7", "8", "9"}

DigitVal(c) ==
    CASE c = "0" -> 0 [] c = "1" -> 1 [] c = "2" -> 2 [] c = "3" -> 3
      [] c = "4" -> 4 [] c = "5" -> 5 [] c = "6" -> 6 [] c = "7" -> 7
      [] c = "8" -> 8 [] OTHER -> 9

\* strings.TrimPrefix(s, "$"): one leading "$" is removed, no more
TrimPrefix(s) ==
    IF Len(s) > 0 /\ s[1] = "$" THEN SubSeq(s, 2, Len(s)) ELSE s

\* strings.ToLower on the characters of the input alphabet
ToLower(s) == [i \in 1..Len(s) |-> IF s[i] = "Y" THEN "y" ELSE s[i]]

\* where the "." of a decimal is, or one past its end
DotAt(s) ==
    IF \E i \in 1..Len(s) : s[i] = "."
    THEN CHOOSE i \in 1..Len(s) : s[i] = "." /\ \A j \in 1..(i - 1) : s[j] # "."
    ELSE Len(s) + 1

IntPart(s) == SubSeq(s, 1, DotAt(s) - 1)
FracPart(s) == SubSeq(s, DotAt(s) + 1, Len(s))

\* strconv.ParseFloat succeeds on decimal digits with at most one "." and at
\* least one digit (no amount typed here holds a sign or an exponent)
ParseFloatOk(s) ==
    /\ \A i \in 1..Len(s) : s[i] \in Digits \cup {"."}
    /\ \A i \in 1..Len(FracPart(s)) : FracPart(s)[i] # "."
    /\ Len(IntPart(s)) + Len(FracPart(s)) > 0

RECURSIVE DecimalValue(_)
DecimalValue(s) ==
    IF Len(s) = 0 THEN 0
    ELSE 10 * DecimalValue(SubSeq(s, 1, Len(s) - 1)) + DigitVal(s[Len(s)])

\* the decimal as a fraction c/100, for at most two digits after the "."
ExactCents(s) ==
    100 * DecimalValue(IntPart(s))
      + (IF Len(FracPart(s)) = 1 THEN 10 * DigitVal(FracPart(s)[1])
         ELSE DecimalValue(FracPart(s)))

(* The float64 arithmetic of int64(amountFloat * 100), for amountFloat the
   double nearest to c/100 with 0 < c:
     e is the binary exponent of c/100, so amountFloat = m * 2^(e-52) with
     m the integer nearest to c * 2^(52-e) / 100; with r the remainder of
     c * 2^(52-e) by 100, m * 100 = c * 2^(52-e) + d where d = -r when the
     parse rounded down (r < 50) and d = 100 - r when it rounded up.
     The product is rounded to 53 bits again: when c/100 < 1.28 * 2^e its
     exponent is e + 6 and the unit of the result is 64 of those of
     amountFloat, otherwise the unit is 128.  c * 2^(52-e) is a multiple of
     both, so the product rounds to c exactly unless the unit is 64 and
     |d| > 32; it then lands one unit beside c, and int64 truncates the
     value below c to c - 1. *)
RECURSIVE Pow2Mod100(_)
Pow2Mod100(k) == IF k = 0 THEN 1 ELSE (2 * Pow2Mod100(k - 1)) % 100

\* e with 2^e <= c/100 < 2^(e+1)
FloatExponent(c) ==
    CHOOSE e \in -7..20 :
       IF e >= 0 THEN 100 * 2^e <= c /\ c < 100 * 2^(e + 1)
       ELSE 100 <= c * 2^(-e) /\ c * 2^(-e) < 200

ParseRemainder(c) == ((c % 100) * Pow2Mod100(52 - FloatExponent(c))) % 100

\* c/100 < 1.28 * 2^e: the product c/100 * 100 is below 2^(e+7)
ProductUnit64(c) ==
    LET e == FloatExponent(c)
    IN  IF e >= 0 THEN c < 128 * 2^e ELSE c * 2^(-e) < 128

\* int64(float64(c/100) * 100)
Float64Cents(c) ==
    IF c = 0 THEN 0
    ELSE IF ProductUnit64(c) /\ 32 < ParseRemainder(c) /\ ParseRemainder(c) < 50
    THEN c - 1
    ELSE c

\* int64(amountFloat * 100) for the amount ParseFloat read from s
AmountCents(s) == Float64Cents(ExactCents(s))

----------------------------------------------------------------------------
(* The record store: package db *)

\* time.Now(), as a day number; the seeded records are dated 1..Today
Today == 3

SeedNote(i) ==
    CASE i % 3 = 1 -> <<"n", "n", "n", "n", "n">>
      [] i % 3 = 2 -> <<>>
      [] OTHER     -> <<"n", "n">>

\* the record with id i that the store holds when the program starts
SeedEntry(i) ==
    [id     |-> i,
     amount |-> 100 * i,
     source |-> IF i % 2 = 0 THEN "stripe" ELSE "manual",
     type   |-> IF i % 2 = 0 THEN "one-time" ELSE "recurring",
     note   |-> SeedNote(i),
     date   |-> CASE i % 3 = 1 -> 2 [] i % 3 = 2 -> 3 [] OTHER -> 1]

\* ORDER BY date DESC, id DESC
Before(a, b) == a.date > b.date \/ (a.date = b.date /\ a.id > b.id)

RECURSIVE ListEntries(_)
ListEntries(st) ==
    IF st = {} THEN <<>>
    ELSE LET first == CHOOSE e \in st : \A f \in st \ {e} : Before(e, f)
         IN  <<first>> \o ListEntries(st \ {first})

GetAllEntries(st) == ListEntries(st)

\* mutant of AddEntry: the source and the type are bound to each other's column
AddEntry_swapped(st, nid, amount, source, entryType, note, date) ==
    st \cup {[id |-> nid, amount |-> amount, source |-> entryType,
              type |-> source, note |-> note, date |-> date]}

\* INSERT INTO entries ...: the new row gets the next id
AddEntry(st, nid, amount, source, entryType, note, date) ==
    st \cup {[id |-> nid, amount |-> amount, source |-> source,
              type |-> entryType, note |-> note, date |-> date]}

GetEntryFound(st, id) == \E e \in st : e.id = id

None == [set |-> FALSE]
Some(v) == [set |-> TRUE, v |-> v]

\* mutant of UpdateEntry: the UPDATE has no WHERE clause
UpdateEntry_noWhere(st, id, amount, source, note, dbOk) ==
    IF ~dbOk \/ ~GetEntryFound(st, id) THEN [err |-> TRUE, store |-> st]
    ELSE IF ~amount.set /\ ~source.set /\ ~note.set
         THEN [err |-> TRUE, store |-> st]
    ELSE [err   |-> FALSE,
          store |-> {[e EXCEPT
                        !.amount = IF amount.set THEN amount.v ELSE @,
                        !.source = IF source.set THEN source.v ELSE @,
                        !.note   = IF note.set THEN note.v ELSE @]
                     : e \in st}]

\* UpdateEntry: [err, store]; dbOk is whether the database calls succeed
UpdateEntry(st, id, amount, source, note, dbOk) ==
    IF ~dbOk \/ ~GetEntryFound(st, id) THEN [err |-> TRUE, store |-> st]
    ELSE IF ~amount.set /\ ~source.set /\ ~note.set
         THEN [err |-> TRUE, store |-> st]
    ELSE [err   |-> FALSE,
          store |-> {IF e.id # id THEN e
                     ELSE [e EXCEPT
                             !.amount = IF amount.set THEN amount.v ELSE @,
                             !.source = IF source.set THEN source.v ELSE @,
                             !.note   = IF note.set THEN note.v ELSE @]
                     : e \in st}]

\* mutant of DeleteEntry: the number of rows affected is not looked at
DeleteEntry_silent(st, id, dbOk) ==
    IF ~dbOk THEN [err |-> TRUE, store |-> st]
    ELSE [err |-> FALSE, store |-> {e \in st : e.id # id}]

\* mutant of DeleteEntry: the failure is reported after the row was deleted
DeleteEntry_failsLate(st, id, dbOk) ==
    IF ~GetEntryFound(st, id) THEN [err |-> TRUE, store |-> st]
    ELSE [err |-> ~dbOk, store |-> {e \in st : e.id # id}]

\* DeleteEntry: [err, store]; no row affected is an error
DeleteEntry(st, id, dbOk) ==
    IF ~dbOk \/ ~GetEntryFound(st, id) THEN [err |-> TRUE, store |-> st]
    ELSE [err |-> FALSE, store |-> {e \in st : e.id # id}]

----------------------------------------------------------------------------
(* The controller: package ui *)

MsgAddPrompt == "Add entry (amount): "
MsgEditPrompt == "Edit amount: "
MsgDeletePrompt == "Delete this entry? (y/n): "
MsgRefreshed == "Refreshed"
MsgInvalid == "Invalid amount"
MsgError == "Error: <store error>"
MsgLoadError == "Error loading entries: <store error>"
MsgAdded == "Entry added!"
MsgUpdated == "Entry updated!"
MsgDeleted == "Entry deleted!"

\* the TUI struct as a value
T ==
    [entries |-> entries, selected |-> selected, offset |-> offset,
     width |-> width, height |-> height, inputMode |-> inputMode,
     inputBuf |-> inputBuf, message |-> message]

\* the style of the message is not modelled
setMessage(t, msg, style) == [t EXCEPT !.message = msg]

\* mutant of refresh: entries is assigned before the error is looked at
refresh_clearsOnError(t, st, dbOk) ==
    IF ~dbOk
    THEN [t EXCEPT !.message = "Error loading entries: <store error>",
                   !.entries = <<>>]
    ELSE [t EXCEPT !.entries = GetAllEntries(st),
                   !.selected = IF @ >= Len(GetAllEntries(st))
                                   /\ Len(GetAllEntries(st)) > 0
                                THEN Len(GetAllEntries(st)) - 1 ELSE @]

\* mutant of refresh: selected is not clamped to the reloaded list
refresh_noClamp(t, st, dbOk) ==
    IF ~dbOk THEN [t EXCEPT !.message = "Error loading entries: <store error>"]
    ELSE [t EXCEPT !.entries = GetAllEntries(st)]

\* mutant of refresh: a load scrolls back to the top
refresh_resetsOffset(t, st, dbOk) ==
    IF ~dbOk THEN [t EXCEPT !.message = "Error loading entries: <store error>"]
    ELSE [t EXCEPT !.entries = GetAllEntries(st),
                   !.selected = IF @ >= Len(GetAllEntries(st))
                                   /\ Len(GetAllEntries(st)) > 0
                                THEN Len(GetAllEntries(st)) - 1 ELSE @,
                   !.offset = 0]

\* refresh: a failed load reports and leaves entries; a load clamps selected
refresh(t, st, dbOk) ==
    IF ~dbOk THEN setMessage(t, MsgLoadError, "red")
    ELSE LET es == GetAllEntries(st)
         IN  [t EXCEPT !.entries = es,
                       !.selected = IF @ >= Len(es) /\ Len(es) > 0
                                    THEN Len(es) - 1 ELSE @]

\* the row count adjustOffset scrolls by
AdjustVisibleRows(h) == Max(h - 6, 1)

\* mutant of adjustOffset: the scroll down stops one row short
adjustOffset_offByOne(t) ==
    LET visibleRows == AdjustVisibleRows(t.height)
        o1 == IF t.selected < t.offset THEN t.selected ELSE t.offset
        o2 == IF t.selected >= o1 + visibleRows
              THEN t.selected - visibleRows ELSE o1
    IN  [t EXCEPT !.offset = o2]

adjustOffset(t) ==
    LET visibleRows == AdjustVisibleRows(t.height)
        o1 == IF t.selected < t.offset THEN t.selected ELSE t.offset
        o2 == IF t.selected >= o1 + visibleRows
              THEN t.selected - visibleRows + 1 ELSE o1
    IN  [t EXCEPT !.offset = o2]

moveDown(t) ==
    IF t.selected < Len(t.entries) - 1
    THEN adjustOffset([t EXCEPT !.selected = @ + 1])
    ELSE t

moveUp(t) ==
    IF t.selected > 0
    THEN adjustOffset([t EXCEPT !.selected = @ - 1])
    ELSE t

\* mutant of jumpFirst: the scroll position is not reset
jumpFirst_keepOffset(t) == [t EXCEPT !.selected = 0]

\* case 'g'
jumpFirst(t) == [t EXCEPT !.selected = 0, !.offset = 0]

\* case 'G'
jumpLast(t) == adjustOffset([t EXCEPT !.selected = Len(t.entries) - 1])

\* case 'a'
startAdd(t) ==
    [t EXCEPT !.inputMode = "add", !.inputBuf = <<>>, !.message = MsgAddPrompt]

\* mutant of startEdit: the list is not looked at
startEdit_always(t) ==
    [t EXCEPT !.inputMode = "edit", !.inputBuf = <<>>,
              !.message = MsgEditPrompt]

\* case 'e'
startEdit(t) ==
    IF Len(t.entries) > 0
    THEN [t EXCEPT !.inputMode = "edit", !.inputBuf = <<>>,
                   !.message = MsgEditPrompt]
    ELSE t

\* mutant of startDelete: the list is not looked at
startDelete_always(t) ==
    [t EXCEPT !.inputMode = "delete", !.message = MsgDeletePrompt]

\* case 'd'
startDelete(t) ==
    IF Len(t.entries) > 0
    THEN [t EXCEPT !.inputMode = "delete", !.message = MsgDeletePrompt]
    ELSE t

\* the row count render draws
RenderVisibleRows(h) == Max(h - 7, 1)

\* the indexes i the loop of render visits: i from offset, while
\* i < len(entries) and i - offset < visibleRows
DrawnRows(t) ==
    {i \in t.offset..(t.offset + RenderVisibleRows(t.height) - 1) :
        i < Len(t.entries)}

MaxNoteLen(w) == Max(w - 58, 0)

\* note[:maxNoteLen-3] with a negative bound panics
NoteSlicePanics(note, w) ==
    Len(note) > MaxNoteLen(w) /\ MaxNoteLen(w) - 3 < 0

\* the note as drawn: cut and ended with "..." when longer than maxNoteLen
DrawnNote(note, w) ==
    IF Len(note) > MaxNoteLen(w)
    THEN SubSeq(note, 1, MaxNoteLen(w) - 3) \o <<".", ".", ".">>
    ELSE note

\* render faults on entries[i] with i < 0 and on a negative slice bound
RenderPanics(t) ==
    \E i \in DrawnRows(t) :
        IF i < 0 THEN TRUE ELSE NoteSlicePanics(t.entries[i + 1].note, t.width)

\* render: takes the size from the screen, then draws
render(t, size) == [t EXCEPT !.width = size.w, !.height = size.h]

\* the total render shows in the header
RECURSIVE SumRecurring(_)
SumRecurring(es) ==
    IF Len(es) = 0 THEN 0
    ELSE (IF es[1].type = "recurring" THEN es[1].amount ELSE 0)
         + SumRecurring(Tail(es))

\* mutant of totalMRR: only the rows drawn are added up
totalMRR_drawnRows(t) ==
    SumRecurring([k \in 1..Cardinality({i \in DrawnRows(t) : i >= 0}) |->
                    t.entries[t.offset + k]])

totalMRR(t) == SumRecurring(t.entries)

\* the "| n/m" of the status bar
StatusPosition(t) == t.selected + 1

\* entries[t.selected] is in range
SelectedInRange(t) == 0 <= t.selected /\ t.selected < Len(t.entries)

Call(op, ok) == [op |-> op, ok |-> ok]

\* what a handler hands back to run: the TUI, the store, the calls it made,
\* whether it panicked, and its return value (done)
Result(t, st, nid) ==
    [t |-> t, store |-> st, nextId |-> nid, calls |-> <<>>, panic |-> FALSE,
     done |-> TRUE]

\* mutant of submitAdd: the parse error is ignored and the amount inserted
submitAdd_noValidate(t, st, nid, dbOk) ==
    IF ~dbOk
    THEN [Result(t, st, nid) EXCEPT
            !.t = setMessage(t, MsgError, "red"),
            !.calls = <<Call("insert", FALSE)>>]
    ELSE [Result(t, st, nid) EXCEPT
            !.t = setMessage(t, MsgAdded, "green"),
            !.store = AddEntry(st, nid, AmountCents(TrimPrefix(t.inputBuf)),
                               "manual", "recurring", <<>>, Today),
            !.nextId = nid + 1,
            !.calls = <<Call("insert", TRUE)>>]

\* submitInput, case "add"; dbOk is whether the store call succeeds
submitAdd(t, st, nid, dbOk) ==
    LET same == Result(t, st, nid)
        amountStr == TrimPrefix(t.inputBuf)
    IN  IF ~ParseFloatOk(amountStr)
        THEN [same EXCEPT !.t = setMessage(t, MsgInvalid, "red")]
        ELSE IF ~dbOk
        THEN [same EXCEPT !.t = setMessage(t, MsgError, "red"),
                          !.calls = <<Call("insert", FALSE)>>]
        ELSE [same EXCEPT
                !.t = setMessage(t, MsgAdded, "green"),
                !.store = AddEntry(st, nid, AmountCents(amountStr), "manual",
                                   "recurring", <<>>, Today),
                !.nextId = nid + 1,
                !.calls = <<Call("insert", TRUE)>>]

\* submitInput, case "edit"
submitEdit(t, st, nid, dbOk) ==
    LET same == Result(t, st, nid)
        amountStr == TrimPrefix(t.inputBuf)
    IN  IF Len(t.entries) = 0 THEN same
        ELSE IF ~ParseFloatOk(amountStr)
        THEN [same EXCEPT !.t = setMessage(t, MsgInvalid, "red")]
        ELSE IF ~SelectedInRange(t)
        THEN [same EXCEPT !.panic = TRUE]
        ELSE LET r == UpdateEntry(st, t.entries[t.selected + 1].id,
                                  Some(AmountCents(amountStr)), None, None,
                                  dbOk)
             IN  IF r.err
                 THEN [same EXCEPT !.t = setMessage(t, MsgError, "red"),
                                   !.store = r.store,
                                   !.calls = <<Call("update", FALSE)>>]
                 ELSE [same EXCEPT !.t = setMessage(t, MsgUpdated, "green"),
                                   !.store = r.store,
                                   !.calls = <<Call("update", TRUE)>>]

\* mutant of submitDelete: a cancelled delete keeps the input mode open
submitDelete_staysOpen(t, st, nid, dbOk) ==
    IF ToLower(t.inputBuf) = <<"y">> /\ Len(t.entries) > 0 /\ SelectedInRange(t)
    THEN LET r == DeleteEntry(st, t.entries[t.selected + 1].id, dbOk)
         IN  IF r.err
             THEN [Result(t, st, nid) EXCEPT
                     !.t = setMessage(t, MsgError, "red"),
                     !.calls = <<Call("delete", FALSE)>>]
             ELSE [Result(t, st, nid) EXCEPT
                     !.t = [setMessage(t, MsgDeleted, "green")
                              EXCEPT !.selected = IF @ > 0 THEN @ - 1 ELSE @],
                     !.store = r.store,
                     !.calls = <<Call("delete", TRUE)>>]
    ELSE [Result(t, st, nid) EXCEPT !.t = [t EXCEPT !.message = ""],
                                    !.done = FALSE]

\* mutant of submitDelete: the answer is judged by its first character
submitDelete_firstRune(t, st, nid, dbOk) ==
    IF Len(t.inputBuf) > 0 /\ ToLower(<<t.inputBuf[1]>>) = <<"y">>
       /\ SelectedInRange(t)
    THEN LET r == DeleteEntry(st, t.entries[t.selected + 1].id, dbOk)
         IN  IF r.err
             THEN [Result(t, st, nid) EXCEPT
                     !.t = setMessage(t, MsgError, "red"),
                     !.calls = <<Call("delete", FALSE)>>]
             ELSE [Result(t, st, nid) EXCEPT
                     !.t = [setMessage(t, MsgDeleted, "green")
                              EXCEPT !.selected = IF @ > 0 THEN @ - 1 ELSE @],
                     !.store = r.store,
                     !.calls = <<Call("delete", TRUE)>>]
    ELSE [Result(t, st, nid) EXCEPT !.t = [t EXCEPT !.message = ""]]

\* mutant of submitDelete: selected is left where it was
submitDelete_noStepBack(t, st, nid, dbOk) ==
    IF ToLower(t.inputBuf) = <<"y">> /\ SelectedInRange(t)
    THEN LET r == DeleteEntry(st, t.entries[t.selected + 1].id, dbOk)
         IN  IF r.err
             THEN [Result(t, st, nid) EXCEPT
                     !.t = setMessage(t, MsgError, "red"),
                     !.calls = <<Call("delete", FALSE)>>]
             ELSE [Result(t, st, nid) EXCEPT
                     !.t = setMessage(t, MsgDeleted, "green"),
                     !.store = r.store,
                     !.calls = <<Call("delete", TRUE)>>]
    ELSE [Result(t, st, nid) EXCEPT !.t = [t EXCEPT !.message = ""]]

\* submitInput, case "delete"
submitDelete(t, st, nid, dbOk) ==
    LET same == Result(t, st, nid)
    IN  IF ToLower(t.inputBuf) = <<"y">> /\ Len(t.entries) > 0
        THEN IF ~SelectedInRange(t)
             THEN [same EXCEPT !.panic = TRUE]
             ELSE LET r == DeleteEntry(st, t.entries[t.selected + 1].id, dbOk)
                  IN  IF r.err
                      THEN [same EXCEPT
                              !.t = setMessage(t, MsgError, "red"),
                              !.store = r.store,
                              !.calls = <<Call("delete", FALSE)>>]
                      ELSE [same EXCEPT
                              !.t = [setMessage(t, MsgDeleted, "green")
                                       EXCEPT !.selected =
                                                IF @ > 0 THEN @ - 1 ELSE @],
                              !.store = r.store,
                              !.calls = <<Call("delete", TRUE)>>]
        ELSE [same EXCEPT !.t = [t EXCEPT !.message = ""]]

\* submitInput: true on every path
submitInput(t, st, nid, dbOk) ==
    CASE t.inputMode = "add"    -> submitAdd(t, st, nid, dbOk)
      [] t.inputMode = "edit"   -> submitEdit(t, st, nid, dbOk)
      [] t.inputMode = "delete" -> submitDelete(t, st, nid, dbOk)
      [] OTHER                  -> Result(t, st, nid)

\* mutant of cancelInput: the prompt is left in the message
cancelInput_keepMessage(t) == t

\* handleInput, case tcell.KeyEscape
cancelInput(t) == [t EXCEPT !.message = ""]

\* handleInput, case tcell.KeyBackspace
backspace(t) ==
    IF Len(t.inputBuf) > 0
    THEN [t EXCEPT !.inputBuf = SubSeq(@, 1, Len(@) - 1)]
    ELSE t

\* string(ev.Rune()): the UTF-8 bytes of the rune, one for an ASCII rune and
\* two for U+00E9
Utf8(c) == IF c = "eacute" THEN <<"0xC3", "0xA9">> ELSE <<c>>

\* handleInput, case tcell.KeyRune: the buffer is a Go string, a sequence of
\* bytes
appendRune(t, c) == [t EXCEPT !.inputBuf = @ \o Utf8(c)]

\* mutant of handleInput: the arrow keys move the selection while a line is
\* being typed
handleInput_arrowsMove(t, ev, st, nid, dbOk) ==
    CASE ev.key = "Escape"    -> [Result(t, st, nid) EXCEPT !.t = cancelInput(t)]
      [] ev.key = "Enter"     -> submitInput(t, st, nid, dbOk)
      [] ev.key = "Backspace" ->
           [Result(t, st, nid) EXCEPT !.t = backspace(t), !.done = FALSE]
      [] ev.key = "Rune"      ->
           [Result(t, st, nid) EXCEPT !.t = appendRune(t, ev.rune),
                                      !.done = FALSE]
      [] ev.key = "Down"      ->
           [Result(t, st, nid) EXCEPT !.t = moveDown(t), !.done = FALSE]
      [] ev.key = "Up"        ->
           [Result(t, st, nid) EXCEPT !.t = moveUp(t), !.done = FALSE]
      [] OTHER                -> [Result(t, st, nid) EXCEPT !.done = FALSE]

\* handleInput: ev is [key] or [key |-> "Rune", rune]
handleInput(t, ev, st, nid, dbOk) ==
    CASE ev.key = "Escape"    -> [Result(t, st, nid) EXCEPT !.t = cancelInput(t)]
      [] ev.key = "Enter"     -> submitInput(t, st, nid, dbOk)
      [] ev.key = "Backspace" ->
           [Result(t, st, nid) EXCEPT !.t = backspace(t), !.done = FALSE]
      [] ev.key = "Rune"      ->
           [Result(t, st, nid) EXCEPT !.t = appendRune(t, ev.rune),
                                      !.done = FALSE]
      [] OTHER                -> [Result(t, st, nid) EXCEPT !.done = FALSE]

\* mutant of leaveInput: entries is not reloaded
leaveInput_noReload(t, st, loadOk) ==
    [t EXCEPT !.inputMode = "", !.inputBuf = <<>>]

\* mutant of leaveInput: the buffer is not cleared
leaveInput_keepsBuffer(t, st, loadOk) ==
    refresh([t EXCEPT !.inputMode = ""], st, loadOk)

\* run, after handleInput returned true: the input mode is left, the buffer
\* cleared, entries reloaded
leaveInput(t, st, loadOk) ==
    refresh([t EXCEPT !.inputMode = "", !.inputBuf = <<>>], st, loadOk)

\* what a rune other than q and r does in the switch of run
normalRune(t, c) ==
    CASE c = "j" -> moveDown(t)
      [] c = "k" -> moveUp(t)
      [] c = "g" -> jumpFirst(t)
      [] c = "G" -> jumpLast(t)
      [] c = "a" -> startAdd(t)
      [] c = "e" -> startEdit(t)
      [] c = "d" -> startDelete(t)
      [] OTHER   -> t

\* case 'r'
manualRefresh(t, st, loadOk) ==
    setMessage(refresh(t, st, loadOk), MsgRefreshed, "green")

----------------------------------------------------------------------------
(* State changes shared by the actions *)

Commit(t) ==
    /\ entries' = t.entries
    /\ selected' = t.selected
    /\ offset' = t.offset
    /\ width' = t.width
    /\ height' = t.height
    /\ inputMode' = t.inputMode
    /\ inputBuf' = t.inputBuf
    /\ message' = t.message

\* the history variable: the key, the mode, selection and scroll position the
\* event found, the buffer that Enter submitted, and the store calls the
\* handling made
Record(key, calls) ==
    last' = [key |-> key, mode |-> inputMode,
             buf |-> IF key = "Enter" THEN inputBuf ELSE <<>>,
             selected |-> selected, offset |-> offset, calls |-> calls]

\* mutant of EndEvent: screen.Fini() is not deferred, a panic skips it
EndEvent_noDefer(t, size) ==
    \E r \in {render(t, size)} :
       /\ Commit(r)
       /\ shownMRR' = totalMRR(r)
       /\ phase' = IF RenderPanics(r) THEN "panic" ELSE "loop"
       /\ UNCHANGED finiCalls

\* the render that ends the handling of an event: the header is drawn, then
\* the rows; a panic unwinds through the deferred screen.Fini() of Run
EndEvent(t, size) ==
    \E r \in {render(t, size)} :
       \E panics \in {RenderPanics(r)} :
          /\ Commit(r)
          /\ shownMRR' = totalMRR(r)
          /\ phase' = IF panics THEN "panic" ELSE "loop"
          /\ finiCalls' = IF panics THEN finiCalls + 1 ELSE finiCalls

\* a panic before the render
Panic(t) ==
    /\ Commit(t)
    /\ UNCHANGED shownMRR
    /\ phase' = "panic"
    /\ finiCalls' = finiCalls + 1

\* return nil
Quit ==
    /\ Commit(T)
    /\ UNCHANGED shownMRR
    /\ phase' = "quit"
    /\ finiCalls' = finiCalls + 1

Looping == phase = "loop"

\* run, lines 65-73: a key while an input mode is active
InputKey(ev, name, dbOk, loadOk) ==
    \E h \in {handleInput(T, ev, store, nextId, dbOk)} :
       /\ store' = h.store
       /\ nextId' = h.nextId
       /\ IF h.panic
          THEN /\ Panic(h.t)
               /\ Record(name, h.calls)
          ELSE IF h.done
          THEN /\ EndEvent(leaveInput(h.t, h.store, loadOk), screenSize)
               /\ Record(name, h.calls \o <<Call("listAll", loadOk)>>)
          ELSE /\ EndEvent(h.t, screenSize)
               /\ Record(name, h.calls)

\* mutant of Ignored: a key that no case names clears the message
Ignored_clearsMessage(name) ==
    /\ EndEvent([T EXCEPT !.message = ""], screenSize)
    /\ Record(name, <<>>)
    /\ UNCHANGED <<store, nextId>>

\* run, lines 75-112: a key that no case names; render follows
Ignored(name) ==
    /\ EndEvent(T, screenSize)
    /\ Record(name, <<>>)
    /\ UNCHANGED <<store, nextId>>

----------------------------------------------------------------------------
(* Initial state and actions *)

InitWith(maxEntries) ==
    /\ \E n \in 0..maxEntries :
          /\ store = {SeedEntry(i) : i \in 1..n}
          /\ nextId = n + 1
    /\ screenSize \in [w : Widths, h : Heights]
    /\ finiCalls = 0
    /\ phase = "start"
    /\ entries = <<>>
    /\ selected = 0
    /\ offset = 0
    /\ width = 0
    /\ height = 0
    /\ inputMode = ""
    /\ inputBuf = <<>>
    /\ message = ""
    /\ shownMRR = 0
    /\ last = [key |-> "none", mode |-> "", buf |-> <<>>, selected |-> 0,
               offset |-> 0, calls |-> <<>>]

Init == InitWith(MaxInitEntries)

\* Run: the screen is created and initialised, or Run returns the error;
\* then run's first refresh and render
RunStart ==
    /\ phase = "start"
    /\ \E acquired \in BOOLEAN, loadOk \in BOOLEAN :
          IF ~acquired
          THEN /\ phase' = "initfail"
               /\ Commit(T)
               /\ Record("Run", <<>>)
               /\ UNCHANGED <<finiCalls, shownMRR>>
          ELSE /\ EndEvent(refresh(T, store, loadOk), screenSize)
               /\ Record("Run", <<Call("listAll", loadOk)>>)
    /\ UNCHANGED <<store, nextId, screenSize>>

\* case *tcell.EventResize, to one of the given sizes
ResizeTo(sizes) ==
    /\ Looping
    /\ \E size \in sizes :
          /\ size # screenSize
          /\ screenSize' = size
          /\ EndEvent([T EXCEPT !.width = size.w, !.height = size.h], size)
    /\ Record("Resize", <<>>)
    /\ UNCHANGED <<store, nextId>>

Resize == ResizeTo([w : Widths, h : Heights])

\* tcell.KeyEscape
KeyEscape ==
    /\ Looping
    /\ IF inputMode # ""
       THEN \E loadOk \in BOOLEAN :
               InputKey([key |-> "Escape"], "Escape", TRUE, loadOk)
       ELSE /\ Quit
            /\ Record("Escape", <<>>)
            /\ UNCHANGED <<store, nextId>>
    /\ UNCHANGED screenSize

\* tcell.KeyEnter; an insert beyond the identifier maxId fails
KeyEnterUpTo(maxId) ==
    /\ Looping
    /\ IF inputMode # ""
       THEN \E dbOk \in (IF inputMode = "add" /\ nextId > maxId
                         THEN {FALSE} ELSE BOOLEAN),
               loadOk \in BOOLEAN :
               InputKey([key |-> "Enter"], "Enter", dbOk, loadOk)
       ELSE Ignored("Enter")
    /\ UNCHANGED screenSize

KeyEnter == KeyEnterUpTo(MaxId)

\* tcell.KeyBackspace, tcell.KeyBackspace2
KeyBackspace ==
    /\ Looping
    /\ IF inputMode # ""
       THEN InputKey([key |-> "Backspace"], "Backspace", TRUE, TRUE)
       ELSE Ignored("Backspace")
    /\ UNCHANGED screenSize

\* tcell.KeyUp, tcell.KeyDown: no case of either switch names them
KeyArrow ==
    /\ Looping
    /\ \E key \in {"Up", "Down"} :
          IF inputMode # ""
          THEN InputKey([key |-> key], key, TRUE, TRUE)
          ELSE Ignored(key)
    /\ UNCHANGED screenSize

\* tcell.KeyRune while an input mode is active; the runes typed keep the
\* buffer within the given prefixes
KeyRuneTyped(runes, prefixes) ==
    /\ Looping
    /\ inputMode # ""
    /\ \E c \in runes :
          /\ inputBuf \o Utf8(c) \in prefixes
          /\ InputKey([key |-> "Rune", rune |-> c], c, TRUE, TRUE)
    /\ UNCHANGED screenSize

KeyRuneInput == KeyRuneTyped(InputRunes, TypedPrefixes)

\* tcell.KeyRune while no input mode is active
KeyRuneNormal(runes) ==
    /\ Looping
    /\ inputMode = ""
    /\ \E c \in runes :
          CASE c = "q" ->
                 /\ Quit
                 /\ Record(c, <<>>)
            [] c = "r" ->
                 \E loadOk \in BOOLEAN :
                    /\ EndEvent(manualRefresh(T, store, loadOk), screenSize)
                    /\ Record(c, <<Call("listAll", loadOk)>>)
            [] OTHER ->
                 /\ EndEvent(normalRune(T, c), screenSize)
                 /\ Record(c, <<>>)
    /\ UNCHANGED <<store, nextId, screenSize>>

KeyRune == KeyRuneNormal(NormalRunes)

Next ==
    \/ RunStart
    \/ Resize
    \/ KeyEscape
    \/ KeyEnter
    \/ KeyBackspace
    \/ KeyArrow
    \/ KeyRuneInput
    \/ KeyRune

Spec == Init /\ [][Next]_vars

(* Navigation alone: the record list and the terminal size are fixed at the
   start, and the keys pressed are j, k, g, G and the arrows. *)

InitNav == InitWith(MaxNavEntries)

KeyRuneNav == KeyRuneNormal(NavRunes)

NextNav ==
    \/ RunStart
    \/ KeyArrow
    \/ KeyRuneNav

SpecNav == InitNav /\ [][NextNav]_vars

(* Navigation with resizes: as above, and the terminal changes its height. *)

NextResize ==
    \/ RunStart
    \/ KeyArrow
    \/ KeyRuneNav
    \/ Resize

SpecResize == InitNav /\ [][NextResize]_vars

(* Widths: the list is walked with j and k and the terminal changes its
   width; the note column has room for 0 to 4 characters. *)

KeyRuneStep == KeyRuneNormal({"j", "k"})

ResizeWidth == ResizeTo([w : NoteWidths, h : Heights])

NextWidth ==
    \/ RunStart
    \/ KeyRuneStep
    \/ ResizeWidth

SpecWidth == InitNav /\ [][NextWidth]_vars

(* Heights: navigation, and the terminal changes its height to anything from
   0 up. *)

ResizeHeight == ResizeTo([w : Widths, h : SmallHeights])

NextHeight ==
    \/ RunStart
    \/ KeyRuneNav
    \/ ResizeHeight

SpecHeight == InitNav /\ [][NextHeight]_vars

(* Amounts: one record is added to a store that holds MaxId - 1 records; the
   amount typed is any of AmountTexts. *)

InitAmount == InitWith(MaxId - 1) /\ nextId = MaxId

\* a opens AddInput while the store has room for the record
KeyRuneAdd == nextId <= MaxId /\ KeyRuneNormal({"a"})

KeyRuneAmount == KeyRuneTyped(AmountRunes, AmountPrefixes)

NextAmount ==
    \/ RunStart
    \/ KeyRuneAdd
    \/ KeyRuneAmount
    \/ KeyBackspace
    \/ KeyEnter

SpecAmount == InitAmount /\ [][NextAmount]_vars

(* Delete confirmation: the list is walked with j and k, d opens
   DeleteConfirm and the answer typed is any of ConfirmTexts. *)

KeyRuneWalk == KeyRuneNormal({"j", "k", "d"})

KeyRuneConfirm == KeyRuneTyped(ConfirmRunes, ConfirmPrefixes)

NextConfirm ==
    \/ RunStart
    \/ KeyRuneWalk
    \/ KeyRuneConfirm
    \/ KeyBackspace
    \/ KeyEnter

SpecConfirm == InitNav /\ [][NextConfirm]_vars

(* Typing: a, e or d opens an input mode, and the text typed, and taken back
   with Backspace, is any of TypingTexts. *)

KeyRuneOpen == KeyRuneNormal({"a", "e", "d"})

KeyRuneTyping == KeyRuneTyped(TypingRunes, TypingPrefixes)

NextTyping ==
    \/ RunStart
    \/ KeyRuneOpen
    \/ KeyRuneTyping
    \/ KeyBackspace
    \/ KeyEscape

SpecTyping == Init /\ [][NextTyping]_vars

(* adjustOffset alone: it is called once on a TUI whose selected, offset and
   height are any of the values below. *)

InitAdjust ==
    /\ selected \in 0..MaxPos
    /\ offset \in 0..MaxPos
    /\ height \in AdjustHeights
    /\ width \in Widths
    /\ screenSize = [w |-> width, h |-> height]
    /\ store = {}
    /\ nextId = 1
    /\ finiCalls = 0
    /\ phase = "call"
    /\ entries = <<>>
    /\ inputMode = ""
    /\ inputBuf = <<>>
    /\ message = ""
    /\ shownMRR = 0
    /\ last = [key |-> "none", mode |-> "", buf |-> <<>>, selected |-> 0,
               offset |-> 0, calls |-> <<>>]

CallAdjust ==
    /\ phase = "call"
    /\ Commit(adjustOffset(T))
    /\ phase' = "return"
    /\ Record("adjustOffset", <<>>)
    /\ UNCHANGED <<store, nextId, screenSize, finiCalls, shownMRR>>

NextAdjust == CallAdjust

SpecAdjust == InitAdjust /\ [][NextAdjust]_vars

(* Editing: the list is walked with j and k, e opens EditInput and the amount
   typed is one of Typed. *)

KeyRuneEdit == KeyRuneNormal({"j", "k", "e"})

NextEdit ==
    \/ RunStart
    \/ KeyRuneEdit
    \/ KeyRuneInput
    \/ KeyEnter

SpecEdit == InitNav /\ [][NextEdit]_vars

(* Stale views: the list is walked with j and k, records are deleted and one
   is added, and any reload may fail, so that entries falls behind the
   store. *)

\* the store holds MaxNavEntries records at the start
InitStale == InitNav /\ nextId = MaxNavEntries + 1

\* the texts typed: the answer to the delete prompt, and an amount
StaleTexts == {<<"y">>, <<"1">>}
StaleRunes == {"y", "1"}
StalePrefixes == Prefixes(StaleTexts)

KeyRuneStale == KeyRuneNormal({"j", "k", "a", "d"})

KeyRuneAnswer == KeyRuneTyped(StaleRunes, StalePrefixes)

\* the store has room for one record more than it held at the start
KeyEnterStale == KeyEnterUpTo(MaxNavEntries + 1)

NextStale ==
    \/ RunStart
    \/ KeyRuneStale
    \/ KeyRuneAnswer
    \/ KeyEnterStale

SpecStale == InitStale /\ [][NextStale]_vars

----------------------------------------------------------------------------
(* Properties *)

\* the selected row is one of the rows render draws
SelectedDrawn == selected \in DrawnRows(T)

\* C1: after every j or k pressed in Normal mode on a non-empty list, at a
\* fixed terminal height, selected is in [0, len(entries)-1] and
\* offset <= selected <= offset + visibleRows - 1 for the visibleRows of
\* render: the selected row is one of the rows drawn.
C1_SelectedRowDrawn ==
    (phase = "loop" /\ last.key \in {"j", "k"} /\ last.mode = ""
       /\ Len(entries) > 0)
    => /\ 0 <= selected
       /\ selected <= Len(entries) - 1
       /\ offset <= selected
       /\ selected <= offset + RenderVisibleRows(height) - 1

\* C3: G pressed in Normal mode on a non-empty list selects the last entry
\* and scrolls so that the last entry is among the rows render draws.
C3_LastRowDrawn ==
    (phase = "loop" /\ last.key = "G" /\ last.mode = "" /\ Len(entries) > 0)
    => (selected = Len(entries) - 1 /\ SelectedDrawn)

\* C4: g pressed in Normal mode on a non-empty list leaves selected = 0 and
\* offset = 0, whatever they were before.
C4_FirstRow ==
    (last.key = "g" /\ last.mode = "" /\ Len(entries) > 0)
    => (selected = 0 /\ offset = 0)

C4_Witness ==
    /\ last.key = "g" /\ last.mode = "" /\ Len(entries) > 0
    /\ last.selected > 0 /\ last.offset > 0
    /\ selected = 0 /\ offset = 0

\* C5: in Normal mode the down arrow does what j does and the up arrow does
\* what k does: the step leaves selected and offset as moveDown / moveUp
\* would.
C5_ArrowsMove ==
    [][(phase = "loop" /\ inputMode = "" /\ last'.key \in {"Up", "Down"})
       => LET t == IF last'.key = "Down" THEN moveDown(T) ELSE moveUp(T)
          IN  selected' = t.selected /\ offset' = t.offset]_vars

\* C2: whenever entries is non-empty, 0 <= selected < len(entries), so the
\* position in the status bar is between 1 and the entry count.
C2_SelectedInRange ==
    Len(entries) > 0
    => /\ 0 <= selected /\ selected < Len(entries)
       /\ 1 <= StatusPosition(T) /\ StatusPosition(T) <= Len(entries)

\* the second of two rows was selected and deleted; the reload left one row
C2_Witness ==
    /\ last.key = "Enter" /\ last.mode = "delete" /\ last.selected = 1
    /\ last.calls = <<Call("delete", TRUE), Call("listAll", TRUE)>>
    /\ Len(entries) = 1 /\ selected = 0

\* C6: the loop ends only by q or Esc received in Normal mode; no other
\* event, store failure or render ends it.
C6_EndsOnlyByQuit ==
    phase \notin {"start", "loop", "initfail"}
    => (phase = "quit" /\ last.key \in {"q", "Escape"} /\ last.mode = "")

\* the store calls of the last event that change the store
Mutations(calls) ==
    {i \in 1..Len(calls) : calls[i].op \in {"insert", "update", "delete"}}

InInputMode == phase = "loop" /\ inputMode # ""

\* C7: Enter pressed in an input mode leaves the mode Normal and the buffer
\* empty, whether the parse and the store call succeeded or failed.
C7_EnterReturnsToNormal ==
    [][(InInputMode /\ last'.key = "Enter")
       => (inputMode' = "" /\ inputBuf' = <<>>)]_vars

\* Enter was pressed in AddInput and the insert failed
C7_Witness ==
    /\ last.key = "Enter" /\ last.mode = "add"
    /\ Len(last.calls) = 2 /\ last.calls[1] = Call("insert", FALSE)
    /\ inputMode = "" /\ inputBuf = <<>>

\* C8, as claimed: Esc pressed in an input mode empties the buffer, returns
\* to Normal, leaves the message empty and makes no insert, update or delete.
C8_EscapeClearsMessage ==
    [][(InInputMode /\ last'.key = "Escape")
       => /\ inputMode' = "" /\ inputBuf' = <<>>
          /\ message' = ""
          /\ Mutations(last'.calls) = {} /\ store' = store]_vars

\* C8, amended: the message is empty when the reload that follows succeeds
\* and is the load error when it fails.
C8_EscapeCancels ==
    [][(InInputMode /\ last'.key = "Escape")
       => /\ inputMode' = "" /\ inputBuf' = <<>>
          /\ last'.calls \in {<<Call("listAll", TRUE)>>,
                              <<Call("listAll", FALSE)>>}
          /\ message' = IF last'.calls[1].ok THEN "" ELSE MsgLoadError
          /\ store' = store /\ nextId' = nextId]_vars

\* Esc was pressed in EditInput and the reload that follows succeeded
C8_Witness ==
    /\ last.key = "Escape" /\ last.mode = "edit"
    /\ last.calls = <<Call("listAll", TRUE)>>
    /\ inputMode = "" /\ inputBuf = <<>> /\ message = ""

\* C9: Enter in AddInput or EditInput with a buffer that does not parse
\* leaves an error message, makes no insert or update and leaves the store
\* as it was.
C9_InvalidAmountRejected ==
    [][(InInputMode /\ inputMode \in {"add", "edit"}
          /\ ~ParseFloatOk(TrimPrefix(inputBuf)) /\ last'.key = "Enter")
       => /\ message' \in {MsgInvalid, MsgLoadError}
          /\ Mutations(last'.calls) = {}
          /\ store' = store /\ nextId' = nextId]_vars

\* Enter was pressed in AddInput on a buffer that does not parse
C9_Witness ==
    /\ last.key = "Enter" /\ last.mode = "add"
    /\ last.calls = <<Call("listAll", TRUE)>>
    /\ message = MsgInvalid

\* the last event was Enter in AddInput and the insert succeeded
AddSucceeded ==
    /\ last.key = "Enter" /\ last.mode = "add"
    /\ Len(last.calls) = 2 /\ last.calls[1] = Call("insert", TRUE)

\* the record inserted last is in entries
NewRecordListed == \E i \in 1..Len(entries) : entries[i].id = nextId - 1

\* C10, as claimed: after a successful add the new record is not in entries.
C10_AddNotReloaded == AddSucceeded => ~NewRecordListed

\* C10, amended: after a successful add entries is reloaded; when the reload
\* succeeds entries is the list of the store, the new record and its amount
\* in the total included, and the new record is missing only when the reload
\* fails.
C10_AddReloaded ==
    AddSucceeded
    => IF last.calls[2].ok
       THEN /\ entries = GetAllEntries(store)
            /\ NewRecordListed
            /\ totalMRR(T) = SumRecurring(GetAllEntries(store))
       ELSE ~NewRecordListed

\* a record was added to a list of one and the reload shows both
C10_Witness ==
    /\ AddSucceeded /\ last.calls[2].ok
    /\ NewRecordListed /\ Len(entries) = 2

\* the last event was Enter in an input mode, and its handling ended with a
\* reload that succeeded
SubmitReloaded ==
    /\ last.key = "Enter" /\ last.mode # ""
    /\ Len(last.calls) > 0
    /\ last.calls[Len(last.calls)] = Call("listAll", TRUE)

\* C11: an insert, update or delete made by a submit is followed, within the
\* handling of the same event, by a reload; and after a submit whose reload
\* succeeded the mode is Normal and entries is the list the store returns.
C11_ReloadFollowsSubmit ==
    /\ (last.key = "Enter" /\ Mutations(last.calls) # {})
       => /\ Mutations(last.calls) = {1}
          /\ Len(last.calls) = 2 /\ last.calls[2].op = "listAll"
    /\ SubmitReloaded => (inputMode = "" /\ entries = GetAllEntries(store))

\* a record was deleted from a list of two and the reload shows the other
C11_Witness ==
    /\ SubmitReloaded /\ last.mode = "delete"
    /\ last.calls[1] = Call("delete", TRUE)
    /\ Len(entries) = 1 /\ entries = GetAllEntries(store)

\* Enter is pressed in AddInput and the insert succeeds
AddSubmitOk ==
    /\ InInputMode /\ inputMode = "add" /\ last'.key = "Enter"
    /\ Len(last'.calls) > 0 /\ last'.calls[1] = Call("insert", TRUE)

\* C12: a successful AddInput submit makes one insert; the store gains one
\* record, under an identifier no record had, with the amount parsed from the
\* buffer, source "manual", kind "recurring", an empty note and today's date,
\* and every record it held is still there unchanged.
C12_AddInsertsOneRecord ==
    [][AddSubmitOk
       => /\ Cardinality(Mutations(last'.calls)) = 1
          /\ \A e \in store : e.id # nextId
          /\ store' = store \cup
                      {[id |-> nextId,
                        amount |-> AmountCents(TrimPrefix(inputBuf)),
                        source |-> "manual", type |-> "recurring",
                        note |-> <<>>, date |-> Today]}]_vars

\* "$1" was submitted in AddInput with one record in the store; the store
\* now holds that record and a manual, recurring one of 100 cents
C12_Witness ==
    /\ AddSucceeded /\ last.buf = <<"$", "1">>
    /\ Cardinality(store) = 2
    /\ SeedEntry(1) \in store
    /\ [id |-> 2, amount |-> 100, source |-> "manual", type |-> "recurring",
        note |-> <<>>, date |-> Today] \in store

\* C13: for a buffer of an optional "$" and a decimal with at most two digits
\* after the ".", the record a successful AddInput submit inserts has as its
\* amount the number of cents the decimal denotes.
C13_AmountExact ==
    [][(AddSubmitOk /\ inputBuf \in AmountTexts)
       => \E e \in store' \ store :
             e.amount = ExactCents(TrimPrefix(inputBuf))]_vars

\* C14: a successful EditInput submit changes one thing in the store: the
\* amount of the record whose identifier is that of entries[selected]; the
\* source, kind, note and date of that record and every other record are as
\* they were, and no record is added or removed.
C14_EditOnlyAmount ==
    [][(InInputMode /\ inputMode = "edit" /\ last'.key = "Enter"
          /\ Len(last'.calls) > 0 /\ last'.calls[1] = Call("update", TRUE))
       => /\ SelectedInRange(T)
          /\ store' = {IF e.id = entries[selected + 1].id
                       THEN [e EXCEPT
                               !.amount = AmountCents(TrimPrefix(inputBuf))]
                       ELSE e : e \in store}
          /\ nextId' = nextId]_vars

\* of three records the second, of 200 cents, was edited to "$1": it holds
\* 100 cents and is otherwise as seeded, and the third still holds 300
C14_Witness ==
    /\ last.key = "Enter" /\ last.mode = "edit" /\ last.buf = <<"$", "1">>
    /\ last.calls[1] = Call("update", TRUE)
    /\ store = {SeedEntry(1), [SeedEntry(2) EXCEPT !.amount = 100],
                SeedEntry(3)}

\* Enter is pressed in DeleteConfirm
DeleteSubmit == InInputMode /\ inputMode = "delete" /\ last'.key = "Enter"

\* the buffers that confirm a delete
Confirming == {<<"y">>, <<"Y">>}

\* C15: Enter in DeleteConfirm calls delete exactly when the buffer is "y" or
\* "Y", for the identifier of entries[selected], and when the call succeeds
\* the store loses that record and no other; with any other buffer (empty,
\* "n", "yes", "yy") no delete, insert or update is called and the store is as
\* it was. The mode is Normal afterwards either way.
C15_DeleteOnlyOnY ==
    [][DeleteSubmit
       => /\ inputMode' = ""
          /\ IF inputBuf \in Confirming
             THEN /\ Len(last'.calls) = 2 /\ last'.calls[1].op = "delete"
                  /\ store' = IF last'.calls[1].ok
                              THEN {e \in store :
                                      e.id # entries[selected + 1].id}
                              ELSE store
                  /\ last'.calls[1].ok
                     => \E e \in store : e.id = entries[selected + 1].id
             ELSE /\ Mutations(last'.calls) = {}
                  /\ store' = store]_vars

\* "yy" was submitted in DeleteConfirm on a list of three: nothing was
\* deleted and the mode is Normal
C15_Witness ==
    /\ last.key = "Enter" /\ last.mode = "delete" /\ last.buf = <<"y", "y">>
    /\ last.calls = <<Call("listAll", TRUE)>>
    /\ Cardinality(store) = 3 /\ Len(entries) = 3 /\ inputMode = ""

\* "Y" was submitted in DeleteConfirm on a list of three: the selected record
\* is gone
C15_WitnessConfirmed ==
    /\ last.key = "Enter" /\ last.mode = "delete" /\ last.buf = <<"Y">>
    /\ last.calls = <<Call("delete", TRUE), Call("listAll", TRUE)>>
    /\ Cardinality(store) = 2 /\ Len(entries) = 2

\* Enter is pressed in DeleteConfirm and the delete call is made
DeleteCalled ==
    /\ DeleteSubmit
    /\ Len(last'.calls) > 0 /\ last'.calls[1].op = "delete"

\* selected as submitInput leaves it: one less after a successful delete,
\* unless it was 0
SteppedBack ==
    IF last'.calls[1].ok /\ selected > 0 THEN selected - 1 ELSE selected

\* C16, as claimed: after a successful delete selected is one less than it
\* was, or 0 when it was 0; after a failed delete selected is what it was and
\* an error message is shown.
C16_SelectedAfterDelete ==
    [][DeleteCalled
       => /\ selected' = SteppedBack
          /\ ~last'.calls[1].ok => message' \in {MsgError, MsgLoadError}]_vars

\* C16, amended: that is the value submitInput leaves; the reload that
\* follows, when it succeeds and finds that value past the end of a non-empty
\* list, lowers it to the last index. When entries was the list of the store
\* before the submit, the reload changes nothing and selected is exactly one
\* less (0 stays 0) after a successful delete and unchanged after a failed
\* one. A failed delete shows an error message.
C16_SteppedBackThenClamped ==
    [][DeleteCalled
       => /\ selected' =
               IF last'.calls[2].ok /\ Len(entries') > 0
                  /\ SteppedBack >= Len(entries')
               THEN Len(entries') - 1
               ELSE SteppedBack
          /\ entries = GetAllEntries(store) => selected' = SteppedBack
          /\ ~last'.calls[1].ok => message' \in {MsgError, MsgLoadError}]_vars

\* the last of three rows was deleted: selected went from 2 to 1
C16_Witness ==
    /\ last.key = "Enter" /\ last.mode = "delete"
    /\ last.calls = <<Call("delete", TRUE), Call("listAll", TRUE)>>
    /\ last.selected = 2 /\ selected = 1 /\ Len(entries) = 2

\* the event being handled ends with a reload that fails
ReloadFails ==
    /\ Len(last'.calls) > 0
    /\ last'.calls[Len(last'.calls)] = Call("listAll", FALSE)

\* C17: when the reload of an event fails (at startup, after Enter or Esc in
\* an input mode, on r), entries and offset are what they were before the
\* event, and selected is what it was when the reload was attempted: its
\* value before the event, less the one step back of a delete that succeeded
\* in the same event.
C17_FailedReloadKeepsView ==
    [][ReloadFails
       => /\ entries' = entries
          /\ offset' = offset
          /\ selected' = IF last'.calls[1] = Call("delete", TRUE)
                            /\ selected > 0
                         THEN selected - 1 ELSE selected]_vars

\* r was pressed while entries was behind the store, and the reload failed:
\* entries is still behind
C17_Witness ==
    /\ last.key = "r" /\ last.calls = <<Call("listAll", FALSE)>>
    /\ Len(entries) = 1 /\ Cardinality(store) = 2
    /\ entries # GetAllEntries(store)

\* C18: after an event whose reload failed, whichever path made the reload
\* (startup, the end of an input mode, r in Normal mode), the message is the
\* load error and not a confirmation.
C18_LoadErrorShown ==
    (Len(last.calls) > 0
       /\ last.calls[Len(last.calls)] = Call("listAll", FALSE))
    => message = MsgLoadError

\* C19: when the insert, update or delete of a submit fails, the message
\* afterwards is an error, the store is as it was, the mode is Normal with an
\* empty buffer, and the loop goes on to the next event.
C19_SubmitFailureReported ==
    [][(InInputMode /\ last'.key = "Enter" /\ Len(last'.calls) > 0
          /\ last'.calls[1].op \in {"insert", "update", "delete"}
          /\ ~last'.calls[1].ok)
       => /\ message' \in {MsgError, MsgLoadError}
          /\ store' = store /\ nextId' = nextId
          /\ inputMode' = "" /\ inputBuf' = <<>>
          /\ phase' = "loop"]_vars

\* "y" was submitted in DeleteConfirm and the delete failed: the record is
\* still in the store, the error is shown and the loop goes on
C19_Witness ==
    /\ last.key = "Enter" /\ last.mode = "delete"
    /\ last.calls = <<Call("delete", FALSE), Call("listAll", TRUE)>>
    /\ message = MsgError /\ phase = "loop" /\ inputMode = ""
    /\ entries = GetAllEntries(store) /\ Len(entries) = 2

\* C20: after a resize has been handled on a non-empty list, selected is
\* within the window of the new height, offset <= selected <=
\* offset + visibleRows - 1, even for the row count adjustOffset scrolls by
\* (which is never less than the number of rows render draws).
C20_ResizeRescrolls ==
    (phase = "loop" /\ last.key = "Resize" /\ Len(entries) > 0)
    => /\ offset <= selected
       /\ selected <= offset + AdjustVisibleRows(height) - 1

\* C21: render never faults, whatever the terminal width and the notes: a
\* note longer than the note width (width - 58, at least 0) is drawn cut and
\* ended with "...", and no note is drawn longer than the note width.
C21_NoteNeverFaults ==
    /\ phase # "panic"
    /\ phase = "loop"
       => \A i \in DrawnRows(T) :
             Len(DrawnNote(entries[i + 1].note, width)) <= MaxNoteLen(width)

\* C22: after a resize to a height that leaves less than one row (height 0
\* included) the loop goes on, the row counts of render and of adjustOffset
\* are 1, and no j, k, g or G pressed at that height ends the loop.
C22_SmallHeightNoFault ==
    (phase \in {"loop", "panic"} /\ height <= 6)
    => /\ phase = "loop"
       /\ RenderVisibleRows(height) = 1
       /\ AdjustVisibleRows(height) = 1

\* at any height, a fault is one on the empty list
FaultsOnlyWhenEmpty == phase = "panic" => entries = <<>>

\* the sum of the amounts of the rows I of es
RECURSIVE SumAmounts(_, _)
SumAmounts(es, I) ==
    IF I = {} THEN 0
    ELSE LET i == CHOOSE i \in I : TRUE
         IN  es[i].amount + SumAmounts(es, I \ {i})

\* C23: while the loop runs, the total in the header is the sum of the
\* amounts of all the recurring records of entries, drawn or not; a step that
\* changes entries changes the header with it.
C23_HeaderIsRecurringSum ==
    phase = "loop"
    => shownMRR = SumAmounts(entries, {i \in 1..Len(entries) :
                                         entries[i].type = "recurring"})

\* the recurring record of 100 cents was deleted out of three; the header
\* shows the 300 that are left although one row only is drawn, and the
\* one-time record is not counted
C23_Witness ==
    /\ last.key = "Enter" /\ last.mode = "delete"
    /\ last.calls = <<Call("delete", TRUE), Call("listAll", TRUE)>>
    /\ {e.id : e \in store} = {2, 3}
    /\ shownMRR = 300
    /\ Cardinality(DrawnRows(T)) = 1 /\ Len(entries) = 2

\* C24: e or d pressed in Normal mode opens EditInput / DeleteConfirm exactly
\* when entries holds a record; on an empty list the mode, the buffer, the
\* message, selected and offset stay as they were.
C24_EditDeleteNeedRecord ==
    [][(phase = "loop" /\ inputMode = "" /\ last'.key \in {"e", "d"})
       => IF Len(entries) > 0
          THEN inputMode' = (IF last'.key = "e" THEN "edit" ELSE "delete")
          ELSE /\ inputMode' = "" /\ inputBuf' = inputBuf
               /\ message' = message
               /\ selected' = selected /\ offset' = offset]_vars

\* d was pressed on an empty list that shows a load error: nothing changed
C24_Witness ==
    /\ last.key = "d" /\ last.mode = "" /\ entries = <<>>
    /\ inputMode = "" /\ message = MsgLoadError /\ phase = "loop"

\* C25: the buffer is empty in every state whose mode is Normal, and is
\* empty right after the event that opened an input mode (a, e or d).
C25_BufferEmptyOutsideInput ==
    /\ inputMode = "" => inputBuf = <<>>
    /\ (last.mode = "" /\ inputMode # "") => inputBuf = <<>>

\* d, which assigns nothing to the buffer, opened DeleteConfirm after an
\* amount had been typed and submitted: the buffer is empty
C25_Witness ==
    /\ last.key = "d" /\ last.mode = ""
    /\ inputMode = "delete" /\ inputBuf = <<>>
    /\ nextId = 3 /\ Cardinality(store) = 2

\* C26: screen.Fini() has run exactly once when Run has ended after the
\* screen was acquired, by a quit or by a panic, and not at all before; when
\* the screen cannot be acquired Run ends without a store call, with the
\* store as it was at the start and nothing loaded.
C26_SessionReleasedOnce ==
    /\ phase \in {"quit", "panic"} => finiCalls = 1
    /\ phase \in {"start", "loop", "initfail"} => finiCalls = 0
    /\ phase = "initfail"
       => /\ last.key = "Run" /\ last.calls = <<>>
          /\ entries = <<>>
          /\ store = {SeedEntry(i) : i \in 1..(nextId - 1)}

\* the loop ended in a panic and the screen was released once
C26_Witness == phase = "panic" /\ finiCalls = 1 /\ last.key = "G"

\* C27: a message left by an earlier action does not outlast the next key
\* handled in Normal mode: after j, k, g or G, which set no message of their
\* own, the message is empty and the footer shows the help line.
C27_MessageTransient ==
    [][(phase = "loop" /\ inputMode = "" /\ message # ""
          /\ last'.key \in {"j", "k", "g", "G"} /\ phase' = "loop")
       => message' = ""]_vars

\* C28: an update or delete called with an identifier no record of the store
\* has returns an error and leaves the store as it was; a delete that
\* succeeds was called with the identifier of a record, and removes that
\* record and no other.
C28_StoreContract ==
    [][(InInputMode /\ last'.key = "Enter" /\ Len(last'.calls) = 2
          /\ last'.calls[1].op \in {"update", "delete"})
       => LET id == entries[selected + 1].id
              present == \E e \in store : e.id = id
          IN  /\ ~present => (~last'.calls[1].ok /\ store' = store)
              /\ (last'.calls[1] = Call("delete", TRUE))
                 => /\ present
                    /\ store' = {e \in store : e.id # id}
                    /\ Cardinality(store') = Cardinality(store) - 1]_vars

\* the row edited was one the store no longer holds (deleted while the
\* reload failed): the update failed
C28_Witness ==
    /\ last.key = "Enter" /\ last.mode = "edit"
    /\ last.calls = <<Call("update", FALSE), Call("listAll", FALSE)>>
    /\ SelectedInRange(T)
    /\ \A e \in store : e.id # entries[selected + 1].id

\* how many bytes the last character of a buffer takes
LastCharLen(buf) ==
    IF Len(buf) >= 2 /\ SubSeq(buf, Len(buf) - 1, Len(buf)) = Utf8("eacute")
    THEN 2 ELSE 1

\* C29: in an input mode a character typed is appended to the buffer, and
\* Backspace removes the last character of the buffer, the whole of it, or
\* leaves an empty buffer empty; the mode, entries, selected, offset and the
\* store stay as they were and no store call is made.
C29_TypingEditsBufferOnly ==
    [][(InInputMode /\ last'.key \in TypingRunes \cup {"Backspace"})
       => /\ inputBuf' = IF last'.key # "Backspace"
                         THEN inputBuf \o Utf8(last'.key)
                         ELSE IF inputBuf = <<>> THEN <<>>
                         ELSE SubSeq(inputBuf, 1,
                                     Len(inputBuf) - LastCharLen(inputBuf))
          /\ inputMode' = inputMode /\ entries' = entries
          /\ selected' = selected /\ offset' = offset
          /\ store' = store /\ nextId' = nextId
          /\ last'.calls = <<>>]_vars

\* the same for the characters that take one byte
C29_AsciiTyping ==
    [][(InInputMode /\ last'.key \in TypingRunes \cup {"Backspace"}
          /\ last'.key # "eacute"
          /\ \A i \in 1..Len(inputBuf) : inputBuf[i] \in TypingRunes)
       => /\ inputBuf' = IF last'.key # "Backspace"
                         THEN Append(inputBuf, last'.key)
                         ELSE IF inputBuf = <<>> THEN <<>>
                         ELSE SubSeq(inputBuf, 1, Len(inputBuf) - 1)
          /\ inputMode' = inputMode /\ entries' = entries
          /\ selected' = selected /\ offset' = offset
          /\ store' = store /\ nextId' = nextId
          /\ last'.calls = <<>>]_vars

\* selected is within the window of max(1, height - 6) rows that starts at o
InWindow(o) == o <= selected /\ selected < o + Max(1, height - 6)

\* C30: whatever selected >= 0, offset >= 0 and height adjustOffset is called
\* with, it returns with offset <= selected < offset + max(1, height - 6) and
\* selected as it was; when selected was within the window already, offset
\* is as it was.
C30_AdjustPostcondition ==
    phase = "return"
    => /\ InWindow(offset)
       /\ selected = last.selected
       /\ InWindow(last.offset) => offset = last.offset

\* called with selected 4 below a window of two rows at 0, adjustOffset
\* scrolled down to 3
C30_Witness ==
    /\ phase = "return" /\ height = 8
    /\ last.offset = 0 /\ selected = 4 /\ offset = 3

\* C31: in every reachable state, whatever keys were pressed on whatever
\* record set (the empty one and G included), selected >= 0 and offset >= 0,
\* and render reads entries at no negative and no out-of-range index.
C31_IndexesNeverNegative ==
    /\ selected >= 0
    /\ offset >= 0
    /\ \A i \in DrawnRows(T) : 0 <= i /\ i < Len(entries)

\* C32: after a delete that succeeded, and the reload that followed it, the
\* selected row is inside the window that is drawn: offset <= selected, also
\* when the deleted row was the first one drawn (selected = offset > 0).
C32_SelectedDrawnAfterDelete ==
    (phase = "loop" /\ last.key = "Enter" /\ last.mode = "delete"
       /\ last.calls = <<Call("delete", TRUE), Call("listAll", TRUE)>>)
    => /\ offset <= selected
       /\ Len(entries) > 0 => SelectedDrawn

\* C33: an event handled in an input mode that does not leave the mode (a
\* character, Backspace, an arrow, a resize) leaves entries, selected and
\* offset as they were; and the update or delete a submit makes is made for
\* the record entries[selected] of that moment, which is therefore the
\* record that was selected when e or d was pressed.
C33_InputModeFreezesSelection ==
    [][InInputMode
       => /\ inputMode' # ""
             => /\ inputMode' = inputMode
                /\ entries' = entries
                /\ selected' = selected
                /\ offset' = offset
                /\ store' = store
          /\ (last'.key = "Enter" /\ Len(last'.calls) = 2
                /\ last'.calls[1].ok)
             => LET id == entries[selected + 1].id
                IN  CASE last'.calls[1].op = "delete" ->
                           store' = {e \in store : e.id # id}
                      [] last'.calls[1].op = "update" ->
                           /\ \E e \in store : e.id = id
                           /\ \A e \in store :
                                 e.id # id => e \in store'
                           /\ Cardinality(store') = Cardinality(store)
                      [] OTHER -> TRUE]_vars

\* the terminal was resized while the amount of the second of two rows was
\* being edited: the second row is still the one selected
C33_Witness ==
    /\ last.key = "Resize" /\ last.mode = "edit" /\ inputMode = "edit"
    /\ last.selected = 1 /\ selected = 1 /\ Len(entries) = 2
    /\ phase = "loop"

\* C34: in every reachable state whose mode is EditInput or DeleteConfirm,
\* entries is non-empty and 0 <= selected < len(entries): the read of
\* entries[selected] at submit is in range, and the empty-list guards of
\* submitInput are never taken.
C34_SubmitIndexInRange ==
    inputMode \in {"edit", "delete"}
    => /\ Len(entries) > 0
       /\ 0 <= selected
       /\ selected < Len(entries)

\* DeleteConfirm is open on the second of two rows
C34_Witness ==
    /\ inputMode = "delete" /\ phase = "loop"
    /\ Len(entries) = 2 /\ selected = 1

\* the event being handled ends with a reload that succeeds
ReloadSucceeds ==
    /\ Len(last'.calls) > 0
    /\ last'.calls[Len(last'.calls)] = Call("listAll", TRUE)

\* selected as the reload finds it: its value before the event, less the one
\* step back of a delete that succeeded in the same event
SelectedAtReload ==
    IF last'.calls[1] = Call("delete", TRUE) /\ selected > 0
    THEN selected - 1 ELSE selected

\* a reload that succeeds makes entries the list of the store, lowers
\* selected to the last index exactly when it is at or past the end of a
\* non-empty list, and leaves offset alone
ReloadFrame ==
    ReloadSucceeds
    => /\ entries' = GetAllEntries(store')
       /\ selected' = IF SelectedAtReload >= Len(entries')
                         /\ Len(entries') > 0
                      THEN Len(entries') - 1 ELSE SelectedAtReload
       /\ offset' = offset

\* an add that succeeded and was reloaded leaves selected as it was
AddKeepsSelected ==
    (last'.key = "Enter"
       /\ last'.calls = <<Call("insert", TRUE), Call("listAll", TRUE)>>)
    => selected' = selected

\* C35, as claimed: a reload that succeeds replaces entries, changes selected
\* only when selected >= len(entries) > 0 (to len(entries) - 1), never
\* changes offset and leaves selected alone when the new list is empty; and
\* after an add the selected index is unchanged.
C35_ReloadFrameAsClaimed ==
    [][ReloadFrame /\ AddKeepsSelected]_vars

\* C35, amended: the same of the reload; after an add the selected index is
\* unchanged when, before the add, entries was the list of the store (no
\* earlier reload had failed) and selected was the index of a row, or 0.
\* When selected is at or past the end of the list the add leaves, the
\* reload lowers it to the last index.
C35_ReloadFrame ==
    [][/\ ReloadFrame
       /\ (entries = GetAllEntries(store)
             /\ (SelectedInRange(T) \/ selected = 0))
          => AddKeepsSelected]_vars

\* a record was added while the second row was selected: the index is still
\* 1, the row at it is another one, and offset is past it
C35_Witness ==
    /\ last.key = "Enter" /\ last.mode = "add"
    /\ last.calls = <<Call("insert", TRUE), Call("listAll", TRUE)>>
    /\ last.selected = 1 /\ selected = 1
    /\ entries = GetAllEntries(store) /\ Len(entries) = MaxNavEntries
    /\ entries[1].id = MaxNavEntries + 1

\* a reload found the list shorter: selected was lowered below offset
C35_WitnessShrunk ==
    /\ last.key = "Enter" /\ last.mode = "delete"
    /\ last.calls = <<Call("delete", TRUE), Call("listAll", TRUE)>>
    /\ last.selected = 2 /\ last.offset = 2
    /\ selected = 0 /\ offset = 2 /\ Len(entries) = 1

\* a reload found the store empty: selected is still past the end
C35_WitnessEmptied ==
    /\ last.calls = <<Call("delete", TRUE), Call("listAll", TRUE)>>
    /\ entries = <<>> /\ selected > 0 /\ phase = "loop"

\* the keys pressed in Normal mode that no case of run names
UnboundKeys == {"Enter", "Backspace", "Up", "Down", "x"}

----------------------------------------------------------------------------
TypeOK ==
    /\ phase \in {"start", "loop", "quit", "panic", "initfail", "call",
                 "return"}
    /\ inputMode \in {"", "add", "edit", "delete"}
    /\ \E w \in Typed \cup {<<>>} : IsPrefix(inputBuf, w)
    /\ selected \in Int
    /\ offset \in Int

====
